---- MODULE Spec2Model ----
(***************************************************************************)
(* YMODEM sender (src/src/lib.rs): frame construction, CRC-16, and the     *)
(* blocking transfer engine YmodemSend::send with its send_packet retry    *)
(* loop, run against a peer that chooses every reply byte.  The async      *)
(* engine YmodemAsyncSend::send runs beside it on a port of its own that   *)
(* delivers the same outcomes.                                             *)
(*                                                                         *)
(* One step of the model is one read from the port followed by all the     *)
(* code send executes up to its next read (frame construction and the      *)
(* write of the next frame included).                                      *)
(***************************************************************************)
EXTENDS Integers, Sequences, FiniteSets, TLC

\* ---------------------------------------------------------------- constants
PACKET_SIZE == 128

Soh == 1
Eot == 4
Ack == 6
Nak == 21
Can == 24
C   == 67

\* ------------------------------------------------------------------- bounds
\* bytes the peer may send that make the sender read again at the same
\* place (a non-'C' byte while it waits for 'C', a NAK to a frame)
MaxNoise == 2
\* length of the long file of SpecWrap: 255 full chunks and one more byte
WrapLen == 32641
\* length of the file name that does not fit the header payload
LongNameLen == 126
\* number of written packets the log of the port keeps in full
LogCap == 8

\* a read that ended without a byte (read_exact returned Err)
TimedOut == 0 - 1
\* a byte that is no control code
Junk == CHOOSE b \in 0..255 : b \notin {Soh, Eot, Ack, Nak, Can, C}

PeerBytes == {C, Ack, Nak, Can, Junk}
ReadOutcomes == PeerBytes \cup {TimedOut}

VARIABLES
  file,         \* the YmodemSender: which (fname, fdata) of Files it holds
  pc,           \* position of send: the read it is blocked in, or its end
  result,       \* value returned by send ("none" while it runs)
  fault,        \* panic that ended send ("none" if it did not panic)
  file_header,  \* local file_header of send (<<>> before it is built)
  block_number, \* index of the chunk being sent (enumerate() index)
  packet,       \* argument packet of the running send_packet
  writes,       \* the packets written to the port, in order (the last
                \* LogCap of them)
  wmeta,        \* for every write: index of its frame in the transfer order
                \* (0 header, k data frame k, then EOT, then termination)
  write_failed, \* a write_all of the port returned Err
  rx,           \* every read of the port: where, what, writes so far
  noise_left,   \* noise bytes the peer may still send
  async_send    \* the async send on its own port: its position, result,
                \* fault, packet and block_number, the packets it wrote
                \* (the last LogCap), and how many writes and reads it made

vars == <<file, pc, result, fault, file_header, block_number, packet,
          writes, wmeta, write_failed, rx, noise_left, async_send>>

\* ------------------------------------------------------------ pure helpers
Last(s) == s[Len(s)]

RECURSIVE ToDecimal(_)
\* usize::to_string().as_bytes(): ASCII decimal digits, no leading zero
ToDecimal(n) ==
  IF n < 10 THEN <<48 + n>> ELSE Append(ToDecimal(n \div 10), 48 + (n % 10))

RECURSIVE Xor8(_, _, _)
\* bitwise xor of the low k bits of a and b
Xor8(a, b, k) ==
  IF k = 0 \/ (a = 0 /\ b = 0) THEN 0
  ELSE ((a + b) % 2) + 2 * Xor8(a \div 2, b \div 2, k - 1)

\* x ^ bit for a single-bit mask
FlipBit(x, bit) == IF (x \div bit) % 2 = 1 THEN x - bit ELSE x + bit

\* x ^ 0x1021 on 16 bits
XorPoly(x) == FlipBit(FlipBit(FlipBit(x, 4096), 32), 1)

\* one round of the inner loop of crc16_ccitt
CrcShift(crc) ==
  IF crc >= 32768 THEN XorPoly((crc * 2) % 65536) ELSE (crc * 2) % 65536

RECURSIVE CrcShifts(_, _)
CrcShifts(crc, n) == IF n = 0 THEN crc ELSE CrcShifts(CrcShift(crc), n - 1)

\* crc ^= (byte as u16) << 8, then the eight shifts
CrcByte(crc, byte) ==
  CrcShifts(Xor8(crc \div 256, byte, 8) * 256 + (crc % 256), 8)

RECURSIVE CrcRange(_, _, _, _)
\* the outer loop of crc16_ccitt over data[lo..hi], in index order, from
\* register value crc (the range is halved to keep the evaluation shallow)
CrcRange(data, lo, hi, crc) ==
  IF lo > hi \/ crc < 0 THEN crc     \* crc < 0 never holds: a u16 register
  ELSE IF lo = hi THEN CrcByte(crc, data[lo])
  ELSE LET mid == (lo + hi) \div 2
       IN  CrcRange(data, mid + 1, hi, CrcRange(data, lo, mid, crc))

crc16_ccitt(data) == CrcRange(data, 1, Len(data), 0)

\* let mut block = [0u8; PACKET_SIZE]; block[..s.len()].copy_from_slice(s)
\* (defined for Len(s) <= PACKET_SIZE; the slice panics otherwise)
ZeroPad(s) == [i \in 1..PACKET_SIZE |-> IF i <= Len(s) THEN s[i] ELSE 0]

\* file_info without its closing space
FileInfoNoSpace(name, data) == name \o <<0>> \o ToDecimal(Len(data))

\* file_info of create_file_header
FileInfo(name, data) == name \o <<0>> \o ToDecimal(Len(data)) \o <<32>>

\* block[..file_info.len()] is in range
HeaderFits(name, data) == Len(FileInfo(name, data)) <= PACKET_SIZE

create_file_header(name, data) ==
  LET block == ZeroPad(FileInfo(name, data))
      crc_value == crc16_ccitt(block)
  IN  <<Soh, 0, 255>> \o block \o <<crc_value \div 256, crc_value % 256>>

\* a data block whose checksum covers the control and sequence bytes too
create_data_block_crc_frame(chunk, bn) ==
  LET data == ZeroPad(chunk)
      crc_value == crc16_ccitt(<<Soh, bn, 255 - bn>> \o data)
  IN  <<Soh, bn, 255 - bn>> \o data \o <<crc_value \div 256, crc_value % 256>>

create_data_block(chunk, bn) ==
  LET data == ZeroPad(chunk)
      crc_value == crc16_ccitt(data)
  IN  <<Soh, bn, 255 - bn>> \o data \o <<crc_value \div 256, crc_value % 256>>

\* a chunk count that is never 0
NumChunksAtLeastOne(data) ==
  IF Len(data) = 0 THEN 1 ELSE (Len(data) + PACKET_SIZE - 1) \div PACKET_SIZE

\* number of items of fdata.chunks(PACKET_SIZE)
NumChunks(data) == (Len(data) + PACKET_SIZE - 1) \div PACKET_SIZE

\* chunks that all start at the first byte of the data
ChunkFirst(data, i) ==
  [j \in 1..(IF PACKET_SIZE < Len(data) THEN PACKET_SIZE ELSE Len(data)) |->
     data[j]]

\* item i (from 0) of fdata.chunks(PACKET_SIZE)
Chunk(data, i) ==
  LET lo == i * PACKET_SIZE + 1
      hi == IF (i + 1) * PACKET_SIZE < Len(data)
            THEN (i + 1) * PACKET_SIZE ELSE Len(data)
  IN  [j \in 1..(hi - lo + 1) |-> data[lo + j - 1]]

\* a counter that starts at 0
BlockNumberFromZero(i) == i % 256

\* a counter that wraps to 1, not to 0
BlockNumberSkipZero(i) == (i % 255) + 1

\* (block_number + 1) as u8
BlockNumber(i) == (i + 1) % 256

EotPacket == <<Eot>>
ZeroChunk == [j \in 1..PACKET_SIZE |-> 0]

\* rcv::wait_for_ack applied to the outcome of its read
WaitForAck(r) ==
  IF r = TimedOut THEN "Timeout"
  ELSE IF r = Ack THEN "Ok"
  ELSE IF r = Nak THEN "RequestReSend"
  ELSE "InvalidResponse"

\* rcv::wait_msg applied to the outcome of its read: it returns a byte, so
\* a read without a byte either panics (TimedOut) or yields a filler byte
WaitMsg(r) == IF r = TimedOut THEN {TimedOut, Junk} ELSE {r}

\* a loop that returns every error, RequestReSend included
SendPacketStepGiveUp(res) == IF res = "Ok" THEN "ok" ELSE "return"

\* a loop that writes the packet again on InvalidResponse too
SendPacketStepRetryAll(res) ==
  IF res = "Ok" THEN "ok"
  ELSE IF res \in {"RequestReSend", "InvalidResponse"} THEN "resend"
  ELSE "return"

\* a loop that is left with Ok on RequestReSend
SendPacketStepNakOk(res) ==
  IF res \in {"Ok", "RequestReSend"} THEN "ok" ELSE "return"

\* one turn of the while-let loop of send_packet on the result res of
\* wait_for_ack: leave the loop with Ok, write the packet again, or return
\* the error
SendPacketStep(res) ==
  IF res = "Ok" THEN "ok"
  ELSE IF res = "RequestReSend" THEN "resend"
  ELSE "return"

\* a wait that ACK ends too
IsReadyOrAck(b) == b \in {C, Ack}

\* response[0] == YmodemControlCode::C as u8
IsReady(b) == b = C

\* a gate that lets every byte pass
GateOkAny(b) == TRUE

\* a gate that NAK passes too
GateOkOrNak(b) == b \in {C, Nak}

\* a gate that CAN passes too
GateOkOrCan(b) == b \in {C, Can}

\* rcv::wait_msg(port) != C  =>  return Err(InvalidResponse)
GateOk(b) == b = C


\* ------------------------------------------------------------------ inputs
Hello == <<104, 101, 108, 108, 111, 46, 116, 120, 116>>   \* "hello.txt"
Abc == <<97, 98, 99>>                                      \* "abc"
ShortName == <<97>>                                        \* "a"
LongName == [i \in 1..LongNameLen |-> 97]
Pattern(n) == [i \in 1..n |-> (i * 7) % 256]

\* the senders YmodemSender::new(fname, fdata) of the model
Files ==
  [ hello_abc  |-> [name |-> Hello,     data |-> Abc],
    empty      |-> [name |-> ShortName, data |-> <<>>],
    two_chunks |-> [name |-> ShortName, data |-> Pattern(PACKET_SIZE + 1)],
    long_name  |-> [name |-> LongName,  data |-> <<120>>],
    wrap       |-> [name |-> ShortName, data |-> Pattern(WrapLen)] ]

SmallFiles == {"hello_abc", "empty", "two_chunks", "long_name"}

fname == Files[file].name
fdata == Files[file].data

\* positions of send inside send_packet, and at the two wait_msg gates
AckStates == {"header_ack", "data_ack", "eot_ack", "term_ack"}
GateStates == {"header_gate", "eot_gate"}

\* the log of the port after one more packet
Logged(log, p) ==
  IF Len(log) >= LogCap THEN Append(Tail(log), p) ELSE Append(log, p)

\* --------------------------------------------------------- the async engine
\* rcv::r#async::wait_for_ack and rcv::r#async::wait_msg applied to the
\* outcome of their read
AsyncWaitForAck(r) == WaitForAck(r)
AsyncWaitMsg(r) == WaitMsg(r)

\* an async loop that returns every error, RequestReSend included
SendPacketAsyncStepGiveUp(res) == IF res = "Ok" THEN "ok" ELSE "return"

\* one turn of the while-let loop of send_packet_async
SendPacketAsyncStep(res) ==
  IF res = "Ok" THEN "ok"
  ELSE IF res = "RequestReSend" THEN "resend"
  ELSE "return"

\* response[0] == YmodemControlCode::C as u8 in the async send
AsyncIsReady(b) == b = C

\* rcv::r#async::wait_msg(port).await != C  =>  return Err(InvalidResponse)
AsyncGateOk(b) == b = C

\* (block_number + 1) as u8 in the async send
AsyncBlockNumber(i) == (i + 1) % 256

\* the async send when it is called
AsyncStart ==
  [pc |-> "await_ready", result |-> "none", fault |-> "none",
   packet |-> <<>>, block_number |-> 0, writes |-> <<>>, nwrites |-> 0,
   nreads |-> 0]

AsyncHalt(a, newpc, res, flt) ==
  [a EXCEPT !.pc = newpc, !.result = res, !.fault = flt]

\* a read of the async port was awaited
AsyncRead(a) == [a EXCEPT !.nreads = @ + 1]

\* port.write_all(packet).await.unwrap(); ok: the write returned Ok
AsyncWriteAll(a, p, okpc, ok) ==
  IF ok
  THEN [a EXCEPT !.writes = Logged(@, p), !.nwrites = @ + 1, !.pc = okpc,
                 !.packet = p]
  ELSE [a EXCEPT !.pc = "panic", !.fault = "write_unwrap", !.packet = p]

\* first write of the data frame of chunk i, or of EOT after the last chunk
AsyncChunkOrEot(a, i, ok) ==
  IF i < NumChunks(fdata)
  THEN AsyncWriteAll([a EXCEPT !.block_number = i],
                     create_data_block(Chunk(fdata, i), AsyncBlockNumber(i)),
                     "data_ack", ok)
  ELSE AsyncWriteAll(a, EotPacket, "eot_ack", ok)

\* what the async send does once send_packet_async has returned Ok
AsyncOnOk(a, ok) ==
  IF a.pc = "header_ack" THEN [a EXCEPT !.pc = "header_gate"]
  ELSE IF a.pc = "data_ack" THEN AsyncChunkOrEot(a, a.block_number + 1, ok)
  ELSE IF a.pc = "eot_ack" THEN [a EXCEPT !.pc = "eot_gate"]
  ELSE AsyncHalt(a, "returned", "Ok", "none")

\* what the async send does once a gate has read 'C'
AsyncOnC(a, ok) ==
  IF a.pc = "header_gate" THEN AsyncChunkOrEot(a, 0, ok)
  ELSE AsyncWriteAll(a, create_data_block(ZeroChunk, 0), "term_ack", ok)

\* one read of the async send with outcome r (b: what wait_msg made of it)
\* and all it executes up to its next read; ok: its writes return Ok
AsyncSend(a, r, b, ok) ==
  IF a.pc = "await_ready"
  THEN IF r = TimedOut
       THEN AsyncHalt(AsyncRead(a), "panic", "none", "read_unwrap")
       ELSE IF ~AsyncIsReady(r) THEN AsyncRead(a)
       ELSE IF ~HeaderFits(fname, fdata)
       THEN AsyncHalt(AsyncRead(a), "panic", "none", "slice_index")
       ELSE AsyncWriteAll(AsyncRead(a), create_file_header(fname, fdata),
                          "header_ack", ok)
  ELSE IF a.pc \in AckStates
  THEN LET res == AsyncWaitForAck(r)
           step == SendPacketAsyncStep(res)
       IN  IF step = "ok" THEN AsyncOnOk(AsyncRead(a), ok)
           ELSE IF step = "resend"
           THEN AsyncWriteAll(AsyncRead(a), a.packet, a.pc, ok)
           ELSE AsyncHalt(AsyncRead(a), "returned", res, "none")
  ELSE IF a.pc \in GateStates
  THEN IF b = TimedOut
       THEN AsyncHalt(AsyncRead(a), "panic", "none", "wait_msg_read")
       ELSE IF ~AsyncGateOk(b)
       THEN AsyncHalt(AsyncRead(a), "returned", "InvalidResponse", "none")
       ELSE AsyncOnC(AsyncRead(a), ok)
  ELSE a

\* --------------------------------------------------------------- the engine
Start(f, noise) ==
  /\ file = f
  /\ pc = "await_ready"
  /\ result = "none"
  /\ fault = "none"
  /\ file_header = <<>>
  /\ block_number = 0
  /\ packet = <<>>
  /\ writes = <<>>
  /\ wmeta = <<>>
  /\ write_failed = FALSE
  /\ rx = <<>>
  /\ noise_left = noise
  /\ async_send = AsyncStart

Init == \E f \in SmallFiles : Start(f, MaxNoise)

InitWrap == Start("wrap", 0)

ReadRec(r) == [at |-> pc, byte |-> r, nw |-> Len(wmeta)]

\* send ends: it returns res, or it panics with flt
Halt(newpc, res, flt) ==
  /\ pc' = newpc
  /\ result' = res
  /\ fault' = flt
  /\ UNCHANGED <<packet, writes, wmeta, write_failed>>

\* port.write_all(p).unwrap() in send_packet(port, p); frame is the index
\* of p in the transfer order
WriteAll(p, frame, okpc) ==
  /\ \E ok \in BOOLEAN :
       IF ok
       THEN /\ writes' = Logged(writes, p)
            /\ wmeta' = Append(wmeta, frame)
            /\ pc' = okpc
            /\ fault' = "none"
            /\ write_failed' = FALSE
       ELSE /\ UNCHANGED <<writes, wmeta>>
            /\ pc' = "panic"
            /\ fault' = "write_unwrap"
            /\ write_failed' = TRUE
  /\ packet' = p
  /\ result' = result

\* the loop that waits for 'C', then the header and its first write
AwaitReady ==
  /\ pc = "await_ready"
  /\ \E r \in ReadOutcomes :
       /\ (r \in PeerBytes \ {C}) => noise_left > 0
       /\ noise_left' = IF r \in PeerBytes \ {C} THEN noise_left - 1
                        ELSE noise_left
       /\ rx' = Append(rx, ReadRec(r))
       /\ IF r = TimedOut
          THEN Halt("panic", "none", "read_unwrap") /\ UNCHANGED file_header
          ELSE IF ~IsReady(r)
          THEN UNCHANGED <<pc, result, fault, packet, writes, wmeta,
                           write_failed, file_header>>
          ELSE IF ~HeaderFits(fname, fdata)
          THEN Halt("panic", "none", "slice_index") /\ UNCHANGED file_header
          ELSE LET h == create_file_header(fname, fdata)
               IN  file_header' = h /\ WriteAll(h, 0, "header_ack")
       /\ async_send' = AsyncSend(async_send, r, r, ~write_failed')
  /\ UNCHANGED <<file, block_number>>

\* the while-let loop of send_packet, blocked in wait_for_ack at pc = here;
\* OnOk is what send does once send_packet has returned Ok
SendPacketWait(here, OnOk) ==
  /\ pc = here
  /\ \E r \in ReadOutcomes :
       LET res == WaitForAck(r)
           step == SendPacketStep(res)
       IN
       /\ (r = Nak) => noise_left > 0
       /\ noise_left' = IF r = Nak THEN noise_left - 1 ELSE noise_left
       /\ rx' = Append(rx, ReadRec(r))
       /\ IF step = "ok"
          THEN OnOk
          ELSE IF step = "resend"
          THEN WriteAll(packet, Last(wmeta), here) /\ UNCHANGED block_number
          ELSE Halt("returned", res, "none") /\ UNCHANGED block_number
       /\ async_send' = AsyncSend(async_send, r, r, ~write_failed')
  /\ UNCHANGED <<file, file_header>>

\* rcv::wait_msg(port) != C at pc = here; OnC is what send does after it
WaitGate(here, OnC) ==
  /\ pc = here
  /\ \E r \in ReadOutcomes : \E b \in WaitMsg(r) :
       /\ rx' = Append(rx, ReadRec(r))
       /\ IF b = TimedOut
          THEN Halt("panic", "none", "wait_msg_read") /\ UNCHANGED block_number
          ELSE IF ~GateOk(b)
          THEN /\ Halt("returned", "InvalidResponse", "none")
               /\ UNCHANGED block_number
          ELSE OnC
       /\ async_send' = AsyncSend(async_send, r, b, ~write_failed')
  /\ UNCHANGED <<file, file_header, noise_left>>

\* first write of the data frame of chunk i, or of EOT after the last chunk
SendChunkOrEot(i) ==
  IF i < NumChunks(fdata)
  THEN /\ block_number' = i
       /\ WriteAll(create_data_block(Chunk(fdata, i), BlockNumber(i)),
                   i + 1, "data_ack")
  ELSE /\ UNCHANGED block_number
       /\ WriteAll(EotPacket, NumChunks(fdata) + 1, "eot_ack")

\* send_packet(port, &file_header)? returned Ok
HeaderAck ==
  SendPacketWait("header_ack",
    /\ pc' = "header_gate"
    /\ UNCHANGED <<result, fault, packet, writes, wmeta, write_failed,
                   block_number>>)

HeaderGate == WaitGate("header_gate", SendChunkOrEot(0))

DataAck == SendPacketWait("data_ack", SendChunkOrEot(block_number + 1))

EotAck ==
  SendPacketWait("eot_ack",
    /\ pc' = "eot_gate"
    /\ UNCHANGED <<result, fault, packet, writes, wmeta, write_failed,
                   block_number>>)

EotGate ==
  WaitGate("eot_gate",
    /\ UNCHANGED block_number
    /\ WriteAll(create_data_block(ZeroChunk, 0), NumChunks(fdata) + 2,
                "term_ack"))

TermAck ==
  SendPacketWait("term_ack",
    /\ Halt("returned", "Ok", "none")
    /\ UNCHANGED block_number)

Next ==
  \/ AwaitReady
  \/ HeaderAck
  \/ HeaderGate
  \/ DataAck
  \/ EotAck
  \/ EotGate
  \/ TermAck

Spec == Init /\ [][Next]_vars

SpecWrap == InitWrap /\ [][Next]_vars

\* send runs on a thread of its own and every read of the port comes back
\* (with a byte or with its timeout), so a step that can be taken is taken
SpecFair == Init /\ [][Next]_vars /\ WF_vars(Next)

TypeOK ==
  /\ pc \in {"await_ready", "header_ack", "header_gate", "data_ack", "eot_ack",
             "eot_gate", "term_ack", "returned", "panic"}
  /\ result \in {"none", "Ok", "InvalidResponse", "Timeout", "RequestReSend",
                 "SendFailed"}
  /\ fault \in {"none", "read_unwrap", "write_unwrap", "slice_index",
                "wait_msg_read"}
  /\ Len(writes) <= Len(wmeta)
  /\ Len(writes) <= LogCap
  /\ write_failed \in BOOLEAN
  /\ noise_left >= 0


\* ------------------------------------------------------- history vocabulary
RxBytes == [i \in 1..Len(rx) |-> rx[i].byte]

IsPrefix(s, t) == Len(s) <= Len(t) /\ \A i \in 1..Len(s) : s[i] = t[i]

Zeros(n) == [i \in 1..n |-> 0]

\* ceil(L / 128), written without NumChunks
CeilChunks(len) ==
  IF len % PACKET_SIZE = 0 THEN len \div PACKET_SIZE
  ELSE (len \div PACKET_SIZE) + 1

\* read i answered a written frame
IsFrameReply(i) == rx[i].at \in AckStates

\* frame index of the frame that read i answered
FrameOf(i) == wmeta[rx[i].nw]

\* the log holds every write
LogComplete == Len(writes) = Len(wmeta)

\* writes the log no longer holds, the writes it holds, and write j
Dropped == Len(wmeta) - Len(writes)
Kept == (Dropped + 1)..Len(wmeta)
Written(j) == writes[j - Dropped]

WritesOf(f) == {j \in DOMAIN wmeta : wmeta[j] = f}
NakReads(f) == {i \in DOMAIN rx : IsFrameReply(i) /\ rx[i].byte = Nak /\ FrameOf(i) = f}
AckReads(f) == {i \in DOMAIN rx : IsFrameReply(i) /\ rx[i].byte = Ack /\ FrameOf(i) = f}

\* ------------------------------------------------------------------- C1
HelloAbc == fname = Hello /\ fdata = Abc

Script6 == <<C, Ack, C, Ack, C, Ack>>
Script7 == <<C, Ack, C, Ack, Ack, C, Ack>>

\* the four writes of the scenario: header, data frame 1, EOT, termination
ScenarioWrites ==
  /\ LogComplete
  /\ Len(writes) = 4
  /\ Len(writes[1]) = 133
  /\ SubSeq(writes[1], 1, 3) = <<1, 0, 255>>
  /\ SubSeq(writes[1], 4, 131) = Hello \o <<0, 51, 32>> \o Zeros(116)
  /\ Len(writes[2]) = 133
  /\ SubSeq(writes[2], 1, 3) = <<1, 1, 254>>
  /\ SubSeq(writes[2], 4, 131) = Abc \o Zeros(125)
  /\ writes[3] = <<4>>
  /\ writes[4] = <<1, 0, 255>> \o Zeros(128) \o <<0, 0>>

\* C1 as stated: "hello.txt"/"abc" against the replies 'C', ACK, 'C', ACK,
\* 'C', ACK: send returns success after five reads and the four writes.
C1_AsStated ==
  (HelloAbc /\ pc = "returned" /\ IsPrefix(RxBytes, Script6))
    => (result = "Ok" /\ Len(rx) = 5 /\ ScenarioWrites)

\* C1, amended: "hello.txt"/"abc" against the replies 'C', ACK, 'C', ACK,
\* ACK, 'C', ACK (the EOT is acknowledged before the second 'C'): once the
\* seven replies are read send has returned Ok and has made exactly the
\* four writes header, data frame 1 ("abc" and 125 zero bytes), EOT,
\* termination frame.
C1_Scenario ==
  (HelloAbc /\ RxBytes = Script7)
    => (pc = "returned" /\ result = "Ok" /\ ScenarioWrites)

C1_Witness ==
  HelloAbc /\ RxBytes = Script7 /\ pc = "returned" /\ Len(writes) = 4

\* ------------------------------------------------------------------- C2
\* C2: every write of a frame is byte-identical; a frame answered by n NAKs
\* and then an ACK was written exactly n + 1 times and send went on after
\* it; a NAK to a frame never ends send, it makes send write the frame again.
C2_Retry ==
  /\ LogComplete
  /\ \A j, k \in DOMAIN writes : wmeta[j] = wmeta[k] => writes[j] = writes[k]
  /\ \A i \in DOMAIN rx :
       (IsFrameReply(i) /\ rx[i].byte = Ack) =>
         /\ Cardinality(WritesOf(FrameOf(i))) = Cardinality(NakReads(FrameOf(i))) + 1
         /\ i = Len(rx) =>
              \/ pc \in GateStates
              \/ pc \in AckStates /\ Last(wmeta) = FrameOf(i) + 1
              \/ pc = "returned" /\ result = "Ok"
              \/ pc = "panic" /\ write_failed
  /\ \A i \in DOMAIN rx :
       (IsFrameReply(i) /\ rx[i].byte = Nak) =>
         \/ /\ Len(writes) > rx[i].nw
            /\ writes[rx[i].nw + 1] = writes[rx[i].nw]
            /\ wmeta[rx[i].nw + 1] = wmeta[rx[i].nw]
            /\ (i = Len(rx) => pc = rx[i].at)
         \/ i = Len(rx) /\ pc = "panic" /\ write_failed

\* a frame answered NAK, NAK, ACK and written three times
C2_Witness ==
  \E i \in DOMAIN rx :
    /\ IsFrameReply(i) /\ rx[i].byte = Ack
    /\ Cardinality(NakReads(FrameOf(i))) = 2
    /\ Cardinality(WritesOf(FrameOf(i))) = 3

\* ------------------------------------------------------------------- C3
\* C3: a reply to a frame that is a byte other than ACK and NAK (CAN
\* included) is the last read: exactly one write, of that frame, lies
\* between the read before it and this read, send has returned an error,
\* and nothing was written after the read.
C3_Abort ==
  \A i \in DOMAIN rx :
    (IsFrameReply(i) /\ rx[i].byte \in PeerBytes \ {Ack, Nak}) =>
      /\ LogComplete
      /\ i = Len(rx)
      /\ i > 1 /\ rx[i].nw = rx[i - 1].nw + 1
      /\ writes[rx[i].nw] = packet
      /\ pc = "returned"
      /\ result \in {"InvalidResponse", "Timeout", "SendFailed"}
      /\ Len(writes) = rx[i].nw

\* CAN answered a data frame and send has returned
C3_Witness ==
  /\ pc = "returned"
  /\ Len(rx) > 0
  /\ Last(rx).at = "data_ack"
  /\ Last(rx).byte = Can

\* ------------------------------------------------------------------- C4
\* C4: send never returns RequestReSend; what it returns is Ok,
\* InvalidResponse, Timeout or SendFailed.
C4_NoReSend ==
  /\ result # "RequestReSend"
  /\ pc = "returned" => result \in {"Ok", "InvalidResponse", "Timeout", "SendFailed"}

\* send has returned on a run in which a frame was answered NAK
C4_Witness ==
  /\ pc = "returned"
  /\ \E i \in DOMAIN rx : IsFrameReply(i) /\ rx[i].byte = Nak


\* ------------------------------------------------------------------- C5
\* a read that made send read again at the same place
IsNoise(e) ==
  \/ e.at = "await_ready" /\ e.byte # C
  \/ e.at \in AckStates /\ e.byte = Nak

IsProgress(e) == ~IsNoise(e)

\* what a read means for the transfer: where it was made, the byte, and the
\* frame it answered (for a read made before any write: none)
Meaning(e) ==
  <<e.at, e.byte, IF e.nw = 0 THEN 0 - 1 ELSE wmeta[e.nw]>>

\* the reads other than noise, in order
Progress ==
  LET p == SelectSeq(rx, IsProgress)
  IN  [i \in 1..Len(p) |-> Meaning(p[i])]

\* the reads of a complete transfer of a file of n chunks
CompleteRun(n) ==
  <<(<<"await_ready", C, 0 - 1>>), <<"header_ack", Ack, 0>>,
    <<"header_gate", C, 0>>>>
  \o [k \in 1..n |-> <<"data_ack", Ack, k>>]
  \o <<(<<"eot_ack", Ack, n + 1>>), <<"eot_gate", C, n + 1>>,
       <<"term_ack", Ack, n + 2>>>>

\* C5: send returns Ok exactly when, noise apart, its reads were: 'C', the
\* ACK of the header, 'C', the ACK of each of the ceil(L/128) data frames in
\* order, the ACK of EOT, 'C', the ACK of the termination frame; every other
\* return of send is an error.
C5_NoPartialSuccess ==
  /\ result = "Ok" => pc = "returned"
  /\ pc = "returned" =>
       /\ result \in {"Ok", "InvalidResponse", "Timeout", "SendFailed"}
       /\ result = "Ok" <=> Progress = CompleteRun(CeilChunks(Len(fdata)))

\* a transfer of a file of two chunks that returned Ok
C5_Witness ==
  /\ pc = "returned"
  /\ result = "Ok"
  /\ CeilChunks(Len(fdata)) = 2
  /\ Progress = CompleteRun(2)

\* ------------------------------------------------------------------- C6
\* number of frames acknowledged before write j
AcksBefore(j) ==
  Cardinality({i \in DOMAIN rx :
                 IsFrameReply(i) /\ rx[i].byte = Ack /\ rx[i].nw < j})

\* the bytes of the file that data frame k carries, zero-padded
FilePayload(k) ==
  [m \in 1..PACKET_SIZE |->
     IF (k - 1) * PACKET_SIZE + m <= Len(fdata)
     THEN fdata[(k - 1) * PACKET_SIZE + m] ELSE 0]

\* packet p is the frame with index f of the order header, data frames
\* 1..n, EOT, termination frame
IsFrame(p, f, n) ==
  IF f = 0 THEN p = file_header
  ELSE IF f <= n THEN Len(p) = 133 /\ SubSeq(p, 4, 131) = FilePayload(f)
  ELSE IF f = n + 1 THEN p = <<Eot>>
  ELSE f = n + 2 /\ Len(p) = 133 /\ SubSeq(p, 2, 131) = <<0, 255>> \o Zeros(128)

\* C6: every write is the write of the frame whose index in the order
\* header, data frames 1..N, EOT, termination frame is the number of frames
\* acknowledged so far: a frame is first written only when all frames before
\* it are acknowledged, and no frame is written again once a later one is.
C6_StopAndWait ==
  \A j \in DOMAIN wmeta :
    /\ LogComplete
    /\ wmeta[j] = AcksBefore(j)
    /\ IsFrame(writes[j], wmeta[j], CeilChunks(Len(fdata)))
    /\ j > 1 => wmeta[j] \in {wmeta[j - 1], wmeta[j - 1] + 1}
    /\ (j > 1 /\ wmeta[j] = wmeta[j - 1] + 1) =>
         \E i \in DOMAIN rx :
           IsFrameReply(i) /\ rx[i].byte = Ack /\ FrameOf(i) = wmeta[j - 1]

\* all five frames of a two-chunk file written, one of them twice
C6_Witness ==
  /\ CeilChunks(Len(fdata)) = 2
  /\ Len(writes) = 6
  /\ Last(wmeta) = 4
  /\ \E i \in DOMAIN rx : IsFrameReply(i) /\ rx[i].byte = Nak

\* ------------------------------------------------------------------- C7
\* C7 as stated: a failed write makes send return Err(SendFailed), and no
\* panic comes from an error of a read or a write of the port.
C7_TypedFailures ==
  /\ write_failed => (pc = "returned" /\ result = "SendFailed")
  /\ fault \notin {"read_unwrap", "write_unwrap", "wait_msg_read"}

\* ------------------------------------------------------------------- C8
\* C8 as stated: a read that ends without a byte is the last read, and send
\* has returned Err(Timeout).
C8_BoundedReads ==
  \A i \in DOMAIN rx :
    rx[i].byte = TimedOut =>
      (i = Len(rx) /\ pc = "returned" /\ result = "Timeout")

\* ------------------------------------------------------------------- C9
\* create_file_header was called: the loop of send read 'C'
HeaderRequested ==
  \E i \in DOMAIN rx : rx[i].at = "await_ready" /\ rx[i].byte = C

\* name, NUL, decimal size, space
Metadata == fname \o <<0>> \o ToDecimal(Len(fdata)) \o <<32>>

HeaderShape(h) ==
  /\ Len(h) = 133
  /\ h[1] = 1 /\ h[2] = 0 /\ h[3] = 255
  /\ \A m \in 1..PACKET_SIZE :
       h[3 + m] = IF m <= Len(Metadata) THEN Metadata[m] ELSE 0

\* C9 as stated: for every file name and size create_file_header returns a
\* frame of 133 bytes 0x01, 0x00, 0xFF, zero-padded metadata, checksum; it
\* never fails.
C9_HeaderShape ==
  HeaderRequested => (fault # "slice_index" /\ HeaderShape(file_header))

\* ------------------------------------------------------------------ C10
\* C10: the k-th data frame written carries k mod 256 in byte 1 and
\* 255 - (k mod 256) in byte 2 (on the runs in which every frame is written
\* once, so that data frame k is write k + 1).
C10_Sequence ==
  /\ noise_left = 0
  /\ \A j \in Kept :
       (j - 1) \in 1..CeilChunks(Len(fdata)) =>
         /\ wmeta[j] = j - 1
         /\ Len(Written(j)) = 133
         /\ Written(j)[2] = (j - 1) % 256
         /\ Written(j)[3] = 255 - ((j - 1) % 256)

\* data frame 256 is written and carries sequence 0, complement 255
C10_Witness ==
  /\ Len(wmeta) = 257
  /\ CeilChunks(Len(fdata)) >= 256
  /\ Written(257)[2] = 0
  /\ Written(257)[3] = 255

\* ------------------------------------------------------------------ C11
\* write j is the first write of its packet
IsFirstWrite(j) == j = 1 \/ writes[j] # writes[j - 1]

\* the distinct packets written, in order of first write
Frames ==
  LET idx == SelectSeq([j \in DOMAIN writes |-> j], IsFirstWrite)
  IN  [k \in 1..Len(idx) |-> writes[idx[k]]]

\* C11: when send has returned Ok, the distinct packets written are the
\* header, ceil(L/128) data frames, EOT and the termination frame; the
\* 128-byte payloads of the data frames, concatenated in order of first
\* write and cut to L bytes, are the file, and every payload byte past L is
\* zero.
C11_RoundTrip ==
  (pc = "returned" /\ result = "Ok") =>
    LET n == CeilChunks(Len(fdata))
    IN  /\ LogComplete
        /\ Len(Frames) = n + 3
        /\ \A k \in 1..n : Len(Frames[k + 1]) = 133
        /\ \A m \in 1..Len(fdata) :
             Frames[((m - 1) \div PACKET_SIZE) + 2][((m - 1) % PACKET_SIZE) + 4]
               = fdata[m]
        /\ \A k \in 1..n : \A q \in 1..PACKET_SIZE :
             (k - 1) * PACKET_SIZE + q > Len(fdata) => Frames[k + 1][q + 3] = 0

\* a file of 129 bytes sent with success, one packet written twice
C11_Witness ==
  /\ pc = "returned" /\ result = "Ok"
  /\ Len(fdata) = PACKET_SIZE + 1
  /\ Len(Frames) = 5
  /\ Len(writes) = 6

\* ------------------------------------------------------------------ C12
\* C12: the blocking send and the async send, given the same file and the
\* same outcomes of their reads and writes, are at every moment at the same
\* place with the same writes made and the same number of reads consumed,
\* and they end with the same result (or the same panic).
C12_SameEngine ==
  /\ async_send.pc = pc
  /\ async_send.result = result
  /\ async_send.fault = fault
  /\ async_send.writes = writes
  /\ async_send.nwrites = Len(wmeta)
  /\ async_send.nreads = Len(rx)

\* both strategies have returned Ok for the 129-byte file after a retry
C12_Witness ==
  /\ pc = "returned" /\ result = "Ok"
  /\ async_send.pc = "returned" /\ async_send.result = "Ok"
  /\ Len(fdata) = PACKET_SIZE + 1
  /\ async_send.nwrites = 6
  /\ async_send.nreads = 9

\* ------------------------------------------------------------------ C13
\* the errors send can return
Errors == {"InvalidResponse", "Timeout", "SendFailed", "RequestReSend"}

\* read i ended send with an error, and nothing was written after it
AbortedAt(i) ==
  /\ i = Len(rx)
  /\ pc = "returned"
  /\ result \in Errors
  /\ Len(wmeta) = rx[i].nw

\* C13 as stated: a CAN read at any read point (the initial wait for 'C'
\* included) is the last read, send has returned an error and nothing was
\* written after it.
C13_AsStated == \A i \in DOMAIN rx : rx[i].byte = Can => AbortedAt(i)

\* C13, amended: a CAN read as the reply to a frame or at one of the two
\* gates is the last read, send has returned an error and nothing was
\* written after it; a CAN read in the initial wait for 'C' is discarded:
\* send neither ends nor writes, and reads again in the same wait.
C13_PeerCancel ==
  \A i \in DOMAIN rx :
    rx[i].byte = Can =>
      IF rx[i].at = "await_ready"
      THEN /\ rx[i].nw = 0
           /\ i = Len(rx) =>
                pc = "await_ready" /\ result = "none" /\ fault = "none"
                /\ wmeta = <<>>
           /\ i < Len(rx) => rx[i + 1].at = "await_ready" /\ rx[i + 1].nw = 0
      ELSE AbortedAt(i)

\* a CAN was discarded in the initial wait, and a later CAN at a gate made
\* send return
C13_Witness ==
  /\ \E i \in DOMAIN rx : rx[i].at = "await_ready" /\ rx[i].byte = Can
  /\ Len(rx) > 0
  /\ Last(rx).at \in GateStates
  /\ Last(rx).byte = Can
  /\ pc = "returned"

\* ------------------------------------------------------------------ C14
\* the reads of the initial wait that returned 'C'
ReadyAt == {i \in DOMAIN rx : rx[i].at = "await_ready" /\ rx[i].byte = C}

\* C14: nothing is written before a 'C' is read; a byte other than 'C' read
\* in the initial wait (ACK and NAK included) leaves send waiting, with no
\* result and no fault; the first 'C' ends the wait, and the first write,
\* made before any further read, is the header frame.
C14_AwaitReady ==
  /\ ReadyAt = {} => (wmeta = <<>> /\ writes = <<>>)
  /\ \A i \in DOMAIN rx : rx[i].at = "await_ready" => rx[i].nw = 0
  /\ \A i \in DOMAIN rx :
       (rx[i].at = "await_ready" /\ rx[i].byte \in PeerBytes \ {C}) =>
         /\ i = Len(rx) =>
              pc = "await_ready" /\ result = "none" /\ fault = "none"
         /\ i < Len(rx) => rx[i + 1].at = "await_ready"
  /\ \A i \in ReadyAt :
       /\ pc # "await_ready"
       /\ fault = "none" =>
            (Len(wmeta) >= 1 /\ wmeta[1] = 0 /\ writes[1] = file_header
             /\ HeaderShape(writes[1]))
       /\ i < Len(rx) => (rx[i + 1].at = "header_ack" /\ rx[i + 1].nw = 1)
       /\ \A k \in DOMAIN rx : k > i => rx[k].at # "await_ready"

\* ACK and NAK were discarded, 'C' was read and the header is written
C14_Witness ==
  /\ Len(rx) = 3
  /\ rx[1].byte = Ack /\ rx[2].byte = Nak /\ rx[3].byte = C
  /\ pc = "header_ack"
  /\ Len(wmeta) = 1

\* ------------------------------------------------------------------ C15
\* C15: a read at a gate directly follows the ACK of the header (header
\* gate) or of the EOT (EOT gate), with no write between, and is the only
\* read made at that gate; if its byte is not 'C' (NAK and ACK included) it
\* is the last read, send has returned InvalidResponse and nothing was
\* written after it; a NAK is answered by a rewrite only as the reply to a
\* frame.
C15_GatesNotRetried ==
  /\ \A i \in DOMAIN rx :
       rx[i].at \in GateStates =>
         /\ i > 1
         /\ IsFrameReply(i - 1) /\ rx[i - 1].byte = Ack
         /\ rx[i - 1].nw = rx[i].nw
         /\ rx[i - 1].at = (IF rx[i].at = "header_gate" THEN "header_ack"
                            ELSE "eot_ack")
         /\ LogComplete
         /\ writes[rx[i].nw] = (IF rx[i].at = "header_gate" THEN file_header
                                ELSE <<Eot>>)
         /\ \A k \in DOMAIN rx : rx[k].at = rx[i].at => k = i
         /\ rx[i].byte \in PeerBytes \ {C} =>
              /\ i = Len(rx)
              /\ pc = "returned"
              /\ result = "InvalidResponse"
              /\ Len(wmeta) = rx[i].nw
  /\ \A j \in DOMAIN wmeta :
       (j > 1 /\ wmeta[j] = wmeta[j - 1]) =>
         \E i \in DOMAIN rx :
           IsFrameReply(i) /\ rx[i].byte = Nak /\ rx[i].nw = j - 1

\* NAK at the EOT gate: send has returned, the EOT was written once
C15_Witness ==
  /\ Len(rx) > 0
  /\ Last(rx).at = "eot_gate"
  /\ Last(rx).byte = Nak
  /\ pc = "returned"
  /\ result = "InvalidResponse"
  /\ Cardinality({j \in DOMAIN writes : writes[j] = <<Eot>>}) = 1

\* ------------------------------------------------------------------ C16
\* a read of the port ended without a byte, or a write of the port failed
TransportFailed ==
  write_failed \/ \E i \in DOMAIN rx : rx[i].byte = TimedOut

\* so far the peer has answered every frame with ACK and every wait with 'C'
Conforming ==
  \A i \in DOMAIN rx :
    rx[i].byte = (IF rx[i].at \in AckStates THEN Ack ELSE C)

\* send has ended, by a return or by a panic
Ended == pc \in {"returned", "panic"}

\* every run of the model ends: the loops of send are left after finitely
\* many reads when the peer sends finitely many noise bytes
EveryRunEnds == <>Ended

\* C16 as stated: on a transport that fails no read and no write, with
\* finitely many noise bytes from the peer, send eventually returns; and
\* against a peer that answers every frame with ACK and every wait with 'C'
\* send eventually returns Ok.
C16_Termination ==
  /\ <>(pc = "returned" \/ TransportFailed)
  /\ <>(result = "Ok" \/ ~Conforming \/ TransportFailed)

\* ------------------------------------------------------------------ C17
\* write j is a data frame
IsDataWrite(j) == wmeta[j] \in 1..CeilChunks(Len(fdata))

\* write j is a frame with sequence byte 0
HasSequence0(j) == Len(Written(j)) = 133 /\ Written(j)[2] = 0

\* the EOT was acknowledged before write j
EotAckedBefore(j) ==
  \E i \in DOMAIN rx :
    /\ rx[i].at = "eot_ack" /\ rx[i].byte = Ack
    /\ rx[i].nw < j
    /\ wmeta[rx[i].nw] = CeilChunks(Len(fdata)) + 1

\* C17 as stated: every data frame carries a sequence byte in 1..255; a
\* frame with sequence byte 0 is the header or the termination frame, and
\* the termination frame is written only after the EOT was acknowledged.
C17_AsStated ==
  \A j \in Kept :
    /\ IsDataWrite(j) => Written(j)[2] \in 1..255
    /\ HasSequence0(j) =>
         (Written(j)[3] = 255 /\ wmeta[j] \in {0, CeilChunks(Len(fdata)) + 2})
    /\ wmeta[j] = CeilChunks(Len(fdata)) + 2 => EotAckedBefore(j)

\* C17, amended: data frame k carries a sequence byte in 1..255 unless k is
\* a multiple of 256, and then it carries 0 (with complement 255) as the
\* header and the termination frame do; so sequence 0 is reserved to the
\* header and the termination frame exactly for files of at most 255
\* chunks.  The termination frame is written only after the EOT was
\* acknowledged.
C17_Sequence0 ==
  \A j \in Kept :
    /\ IsDataWrite(j) =>
         /\ Written(j)[2] \in 0..255
         /\ Written(j)[2] = 0 <=> wmeta[j] % 256 = 0
         /\ wmeta[j] <= 255 => Written(j)[2] \in 1..255
    /\ HasSequence0(j) =>
         /\ Written(j)[3] = 255
         /\ \/ wmeta[j] \in {0, CeilChunks(Len(fdata)) + 2}
            \/ IsDataWrite(j) /\ wmeta[j] % 256 = 0
    /\ wmeta[j] \in {0, CeilChunks(Len(fdata)) + 2} => HasSequence0(j)
    /\ wmeta[j] = CeilChunks(Len(fdata)) + 2 => EotAckedBefore(j)

\* the termination frame of the file of 256 chunks is written, three
\* writes after data frame 256 with its sequence byte 0
C17_Witness ==
  /\ pc = "term_ack"
  /\ CeilChunks(Len(fdata)) = 256
  /\ Len(wmeta) = 259
  /\ wmeta[257] = 256 /\ HasSequence0(257)
  /\ wmeta[259] = 258 /\ HasSequence0(259)

\* ------------------------------------------------------------------ C18
\* the ASCII digits "123456789", whose CRC-16 with polynomial 0x1021,
\* initial register 0, MSB first, no final XOR is 0x31C3
Digits19 == [i \in 1..9 |-> 48 + i]

C19_EmptyFile ==
  Len(fdata) = 0 =>
    LET term == <<1, 0, 255>> \o Zeros(PACKET_SIZE) \o <<0, 0>>
    IN  /\ LogComplete
        /\ \A j \in DOMAIN writes :
             /\ writes[j] \in {file_header, <<Eot>>, term}
             /\ Len(writes[j]) = 133 => writes[j][2] = 0
             /\ writes[j] = file_header =>
                  SubSeq(writes[j], 4, 131)
                    = fname \o <<0, 48, 32>> \o Zeros(PACKET_SIZE - Len(fname) - 3)
        /\ \A i \in DOMAIN rx :
             (rx[i].at = "header_gate" /\ rx[i].byte = C) =>
               /\ writes[rx[i].nw] = file_header
               /\ Len(writes) > rx[i].nw => writes[rx[i].nw + 1] = <<Eot>>
               /\ i = Len(rx) => (pc = "eot_ack" \/ write_failed)
        /\ (pc = "returned" /\ result = "Ok") =>
             Frames = <<file_header, <<Eot>>, term>>

\* the empty file sent with success, its EOT written twice
C19_Witness ==
  /\ Len(fdata) = 0
  /\ pc = "returned" /\ result = "Ok"
  /\ Len(Frames) = 3
  /\ Len(writes) = 4
  /\ writes[2] = <<Eot>> /\ writes[3] = <<Eot>>

====
